---- MODULE Spec2Model ----
(***************************************************************************)
(* devtoolhub: the health-probing engine (health.py, HealthChecker) and    *)
(* the front ends that drive it (app.py create_app.lifespan, tui.py        *)
(* DevToolHubTUI), as a state machine of cooperative asyncio tasks.  One   *)
(* action is one run of a coroutine between two suspension points.         *)
(***************************************************************************)
EXTENDS Integers, Sequences, FiniteSets, TLC

VARIABLES
    hub_config, \* HealthChecker.hub_config.tools: the configured tools
    frontend,   \* which caller embeds the checker: "web", "tui" or "api"
    fe,         \* the caller's position: "init", "priming", "serving"
    statuses,   \* HealthChecker.statuses: tool name -> ToolStatus
    task,       \* HealthChecker._task: "none", "sleeping", "round", "cancelling", "cancelled"
    client,     \* HealthChecker._http_client: "none", "open", "closed"
    rounds,     \* the _check_all calls in flight, one slot per caller of _check_all
    adhocPc,    \* tui _do_start / action_refresh: "idle", "sleep", "round"
    stopPc,     \* HealthChecker.stop: "idle", "awaitTask", "aclose"
    stops,      \* number of stop() calls that have returned
    stopRaised, \* whether a stop() call let an exception escape
    now,        \* the clock (time.monotonic / datetime.now), in ticks
    lastResult, \* history: per tool, what its most recently completed probe returned
    shown,      \* what the last reader was handed: the status of each row, or NotShown
    acloses,    \* history: number of aclose() calls issued on the HTTP client
    call        \* a function called on its own, outside the engine: its arguments and result

\* the variables of the engine and its front end
engineVars == <<hub_config, frontend, fe, statuses, task, client, rounds, adhocPc, stopPc,
                stops, stopRaised, now, lastResult, shown, acloses>>

vars == <<engineVars, call>>

----------------------------------------------------------------------------
(* Bounds of the model. *)

\* the clock runs from 1 to MaxClock
MaxClock == 2
\* stop() is called at most this many times by the api caller
MaxStops == 2
\* the process table printed by wmic has at most this many rows
MaxRows == 2

----------------------------------------------------------------------------
(* config.py: ToolConfig and the configured tools (tools.yaml). *)

\* a parsed URL (urlparse): hostname "" and port 0 stand for None
NoUrl == [present |-> FALSE, hostname |-> "", port |-> 0]

Url(h, p) == [present |-> TRUE, hostname |-> h, port |-> p]

\* Optional[str] fields: "" stands for None (the code only tests truthiness)
ToolConfig(n, u, hu, hc, pp, sc) ==
    [name |-> n, url |-> u, health_url |-> hu, health_check |-> hc,
     process_pattern |-> pp, start_command |-> sc]

\* the tools.yaml files the model runs with: between them one tool per
\* strategy, and a tool with none
Configs ==
    { << ToolConfig("web", Url("localhost", 8080), NoUrl, "", "", ""),
         ToolConfig("db", Url("localhost", 0), NoUrl, "tcp", "", ""),
         ToolConfig("notes", NoUrl, NoUrl, "", "", "") >>,
      << ToolConfig("worker", NoUrl, NoUrl, "", "worker.py", "python worker.py"),
         ToolConfig("notes", NoUrl, NoUrl, "", "", "") >> }

\* every tool name of every configuration
AllNames == UNION {{c[i].name : i \in DOMAIN c} : c \in Configs}

\* self.hub_config.tools
Tools == hub_config

ToolNames == {Tools[i].name : i \in DOMAIN Tools}

ToolNamed(n) == CHOOSE t \in {Tools[i] : i \in DOMAIN Tools} : t.name = n

\* a mutation of effective_health_check: url is tested before process_pattern
EffectiveHealthCheckUrlFirst(tool) ==
    IF tool.health_check # "" THEN tool.health_check
    ELSE IF tool.health_url.present THEN "http"
    ELSE IF tool.url.present THEN "http"
    ELSE IF tool.process_pattern # "" THEN "process"
    ELSE "none"

\* a mutation of effective_health_check: the last fallback is http, not none
EffectiveHealthCheckHttpFallback(tool) ==
    IF tool.health_check # "" THEN tool.health_check
    ELSE IF tool.health_url.present THEN "http"
    ELSE IF tool.process_pattern # "" THEN "process"
    ELSE "http"

EffectiveHealthCheck(tool) ==
    IF tool.health_check # "" THEN tool.health_check
    ELSE IF tool.health_url.present THEN "http"
    ELSE IF tool.process_pattern # "" THEN "process"
    ELSE IF tool.url.present THEN "http"
    ELSE "none"

----------------------------------------------------------------------------
(* health.py: ToolStatus and the probes.  A probe's environment answers    *)
(* with an event; the probe functions compute (up, details) from it.       *)

\* last_checked = None
NoTime == 0

\* ToolStatus(): the dataclass defaults
Unknown == [status |-> "unknown", latency_ms |-> 0, last_checked |-> NoTime,
            details |-> {}]

\* a JSON value as far as _extract_health_info reads it: its type, its value
\* when it is an int, its text when it is a str or a float that is no finite
\* number.  Finite numbers are ints in the model (true and false are the
\* ints 1 and 0 to isinstance and int()).
Json(t, n, s) == [t |-> t, n |-> n, s |-> s]

\* a key that is missing (dict.get gives None)
Absent == Json("absent", 0, "")

\* JSON null
Null == Json("null", 0, "")

Num(n) == Json("int", n, "")

Text(s) == Json("str", 0, s)

\* the float json.loads makes of the literal NaN
NaN == Json("float", 0, "nan")

\* the value under "memoryMB" or "memory": a dict with what is under its
\* "rss", or a value of another type t
Mem(t, rss) == [t |-> t, rss |-> rss]

\* the value under "memoryIndex"
Index(t, types, files, members) ==
    [t |-> t, types |-> types, files |-> files, members |-> members]

\* the object {}: every key is missing
NoData ==
    [memoryMB |-> Mem("absent", Absent), memory |-> Mem("absent", Absent),
     version |-> Absent, ver |-> Absent, uptimeSeconds |-> Absent, uptime |-> Absent,
     memoryIndex |-> Index("absent", Absent, Absent, Absent),
     types |-> Absent, files |-> Absent, members |-> Absent]

\* a response body: whether resp.json() parses it, whether what it parses to
\* is a dict, and the dict
Body(isJson, isObject, data) ==
    [json |-> isJson, object |-> isObject, data |-> data]

NoBody == Body(FALSE, FALSE, NoData)

Event(kind, code, body, rows) ==
    [kind |-> kind, code |-> code, body |-> body, rows |-> rows]

\* any exception a probe lets out (class Exception); not a cancellation
RaiseEvent == Event("raise", 0, NoBody, <<>>)

\* asyncio delivering CancelledError (class BaseException) at the await
CancelEvent == Event("cancel", 0, NoBody, <<>>)

\* what httpx's get can do: a response, or an exception
HttpEvents ==
    { Event("response", 200, Body(TRUE, TRUE, [NoData EXCEPT !.version = Text("1.2")]), <<>>),
      Event("response", 500, NoBody, <<>>),
      RaiseEvent }

\* what open_connection can do: connect, fail with OSError/timeout, or another exception
TcpEvents ==
    { Event("connected", 0, NoBody, <<>>),
      Event("oserror", 0, NoBody, <<>>),
      RaiseEvent }

\* a row of wmic's CSV (Node,ProcessId,WorkingSetSize); -1 is a field that is no number
Row(pid, ws) == [pid |-> pid, ws |-> ws]

\* what the wmic subprocess can do: print rows, fail with OSError/timeout, or another exception
ProcessEvents ==
    { Event("output", 0, NoBody, <<>>),
      Event("output", 0, NoBody, <<Row(1234, 1048576), Row(5678, 2097152)>>),
      Event("oserror", 0, NoBody, <<>>),
      RaiseEvent }

\* (up, details) returned, or an exception of class exc let out
Returned(up, details) == [raised |-> FALSE, exc |-> "", up |-> up, details |-> details]

Raised(exc) == [raised |-> TRUE, exc |-> exc, up |-> FALSE, details |-> {}]

ExcOf(ev) == IF ev.kind = "cancel" THEN "CancelledError" ELSE "Exception"

\* isinstance(v, (int, float))
IsNumber(v) == v.t \in {"int", "float"}

\* bool(v): None, 0 and "" are false
Truthy(v) ==
    CASE v.t = "int" -> v.n # 0
      [] v.t = "str" -> v.s # ""
      [] v.t = "float" -> TRUE
      [] OTHER -> FALSE

\* str(v)
PyStr(v) == IF v.t = "int" THEN ToString(v.n) ELSE v.s

\* what a block of _extract_health_info adds to info, or the ValueError that
\* int() raises on a float that is no finite number
Adds(info) == [raised |-> FALSE, info |-> info]

ValueError == [raised |-> TRUE, info |-> {}]

\* three digits of n, with leading zeros
Pad3(n) ==
    IF n < 10 THEN "00" \o ToString(n)
    ELSE IF n < 100 THEN "0" \o ToString(n)
    ELSE ToString(n)

RECURSIVE Grouped(_)
\* f"{n:,}" for n >= 0
Grouped(n) ==
    IF n < 1000 THEN ToString(n)
    ELSE Grouped(n \div 1000) \o "," \o Pad3(n % 1000)

\* f"{x / d:.0f}": the quotient rounded to the nearest integer, ties to even
RoundDiv(n, d) ==
    LET q == n \div d
        r == n % d
    IN  IF 2 * r > d THEN q + 1
        ELSE IF 2 * r < d THEN q
        ELSE IF q % 2 = 0 THEN q ELSE q + 1

BytesPerMB == 1048576

\* lines 128-138: the first of memoryMB, memory that is a dict ends the loop,
\* whether or not its rss gave a detail
ExtractMemory(data) ==
    LET FromMB(rss) ==
            IF ~(Truthy(rss) /\ IsNumber(rss)) THEN Adds({})
            ELSE IF rss.t = "float" THEN ValueError
            ELSE Adds({<<"memory", ToString(rss.n) \o " MB">>})
        FromBytes(rss) ==
            IF ~(Truthy(rss) /\ IsNumber(rss)) THEN Adds({})
            ELSE IF rss.t = "float" THEN Adds({<<"memory", rss.s \o " MB">>})
            ELSE Adds({<<"memory", ToString(RoundDiv(rss.n, BytesPerMB)) \o " MB">>})
    IN  IF data.memoryMB.t = "dict" THEN FromMB(data.memoryMB.rss)
        ELSE IF data.memory.t = "dict" THEN FromBytes(data.memory.rss)
        ELSE Adds({})

\* lines 140-144: the first of version, ver that is there and truthy
ExtractVersion(data) ==
    IF Truthy(data.version) THEN Adds({<<"version", PyStr(data.version)>>})
    ELSE IF Truthy(data.ver) THEN Adds({<<"version", PyStr(data.ver)>>})
    ELSE Adds({})

\* lines 150-156: int(val) seconds as hours and minutes
UptimeText(val) ==
    LET secs == val.n
        hours == secs \div 3600
        mins == (secs % 3600) \div 60
    IN  IF hours > 0 THEN ToString(hours) \o "h " \o ToString(mins) \o "m"
        ELSE ToString(mins) \o "m"

\* lines 146-157: the first of uptimeSeconds, uptime that is a number
ExtractUptime(data) ==
    LET val == IF IsNumber(data.uptimeSeconds) THEN data.uptimeSeconds ELSE data.uptime
    IN  IF ~IsNumber(val) THEN Adds({})
        ELSE IF val.t = "float" THEN ValueError
        ELSE Adds({<<"uptime", UptimeText(val)>>})

CountKeys == {"types", "files", "members"}

\* lines 159-165: the numbers of a memoryIndex that is a dict
ExtractNested(data) ==
    LET idx == data.memoryIndex
        nums == {k \in CountKeys : idx.t = "dict" /\ IsNumber(idx[k])}
    IN  IF \E k \in nums : idx[k].t = "float" THEN ValueError
        ELSE Adds({<<k, Grouped(idx[k].n)>> : k \in nums})

\* lines 167-170: the top-level numbers of the keys that info does not have
ExtractTop(data, info) ==
    LET nums == {k \in CountKeys : (\A d \in info : d[1] # k) /\ IsNumber(data[k])}
    IN  IF \E k \in nums : data[k].t = "float" THEN ValueError
        ELSE Adds({<<k, Grouped(data[k].n)>> : k \in nums})

\* _extract_health_info: the details it returns, or the exception it raises
ExtractHealthInfo(data) ==
    LET memory == ExtractMemory(data)
        version == ExtractVersion(data)
        uptime == ExtractUptime(data)
        nested == ExtractNested(data)
        top == ExtractTop(data, nested.info)
    IN  IF memory.raised \/ uptime.raised \/ nested.raised \/ top.raised
        THEN ValueError
        ELSE Adds(memory.info \cup version.info \cup uptime.info \cup nested.info \cup top.info)

PortOr80(url) == IF url.port # 0 THEN url.port ELSE 80

\* a mutation of line 119: the except clause catches nothing
TelemetryCaughtNothing(exc) == FALSE

\* line 119: except Exception, around resp.json() and the extraction
TelemetryCaught(exc) == exc = "Exception"

\* lines 114-120: the details the body adds.  resp.json() raises on a body
\* that is no JSON, the extraction raises ValueError; what the except clause
\* does not catch leaves _check_http
Telemetry(body) ==
    LET x == ExtractHealthInfo(body.data)
    IN  IF ~body.json \/ (body.object /\ x.raised)
        THEN [raised |-> ~TelemetryCaught("Exception"), info |-> {}]
        ELSE IF body.object THEN x
        ELSE Adds({})

\* a mutation of line 107: up = resp.status_code <= 400
CheckHttpUpTo400(tool, ev) ==
    LET url == IF tool.health_url.present THEN tool.health_url ELSE tool.url
        up == ev.code <= 400
        port == {<<"port", ToString(PortOr80(url))>>}
    IN  IF ~url.present THEN Returned(FALSE, {})
        ELSE IF ev.kind # "response" THEN Raised(ExcOf(ev))
        ELSE IF ~up THEN Returned(up, port)
        ELSE IF Telemetry(ev.body).raised THEN Raised("Exception")
        ELSE Returned(up, port \cup Telemetry(ev.body).info)

CheckHttp(tool, ev) ==
    LET url == IF tool.health_url.present THEN tool.health_url ELSE tool.url
        up == ev.code < 400
        port == {<<"port", ToString(PortOr80(url))>>}
    IN  IF ~url.present THEN Returned(FALSE, {})
        ELSE IF ev.kind # "response" THEN Raised(ExcOf(ev))
        ELSE IF ~up THEN Returned(up, port)
        ELSE IF Telemetry(ev.body).raised THEN Raised("Exception")
        ELSE Returned(up, port \cup Telemetry(ev.body).info)

\* _check_tcp lines 178-180: the host and port the connection is opened to
TcpTarget(url) ==
    [host |-> IF url.hostname # "" THEN url.hostname ELSE "127.0.0.1",
     port |-> PortOr80(url)]

CheckTcp(tool, ev) ==
    IF ~tool.url.present THEN Returned(FALSE, {})
    ELSE IF ev.kind = "connected" THEN Returned(TRUE, {})
    ELSE IF ev.kind = "oserror" THEN Returned(FALSE, {})
    ELSE Raised(ExcOf(ev))

\* str() of urlparse's hostname and port, None included
StrHost(url) == IF url.hostname # "" THEN url.hostname ELSE "None"

StrPort(url) == IF url.port # 0 THEN ToString(url.port) ELSE "None"

Endpoint(url) == StrHost(url) \o ":" \o StrPort(url)

RECURSIVE Pids(_)
\* the process ids of the rows whose ProcessId field is a number, in order
Pids(rows) ==
    IF rows = <<>> THEN <<>>
    ELSE IF Head(rows).pid >= 0 THEN <<Head(rows).pid>> \o Pids(Tail(rows))
    ELSE Pids(Tail(rows))

RECURSIVE TotalMem(_)
\* the sum of the WorkingSetSize fields that are numbers
TotalMem(rows) ==
    IF rows = <<>> THEN 0
    ELSE (IF Head(rows).ws >= 0 THEN Head(rows).ws ELSE 0) + TotalMem(Tail(rows))

\* a mutation of line 238: the suffix counts every match, the first included
CheckProcessCountsAll(tool, ev) ==
    LET pids == Pids(ev.rows)
        total_mem == TotalMem(ev.rows)
        pid == IF Len(pids) = 0 THEN {}
               ELSE IF Len(pids) = 1 THEN {<<"pid", ToString(pids[1])>>}
               ELSE {<<"pid", ToString(pids[1]) \o " (+" \o ToString(Len(pids)) \o ")">>}
        memory == IF total_mem > 0
                  THEN {<<"memory", ToString(RoundDiv(total_mem, BytesPerMB)) \o " MB">>}
                  ELSE {}
    IN  IF tool.process_pattern = "" THEN Returned(FALSE, {})
        ELSE IF ev.kind = "oserror" THEN Returned(FALSE, {})
        ELSE IF ev.kind # "output" THEN Raised(ExcOf(ev))
        ELSE IF ev.rows = <<>> THEN Returned(FALSE, {})
        ELSE Returned(Len(pids) > 0, pid \cup memory)

CheckProcess(tool, ev) ==
    LET pids == Pids(ev.rows)
        total_mem == TotalMem(ev.rows)
        pid == IF Len(pids) = 0 THEN {}
               ELSE IF Len(pids) = 1 THEN {<<"pid", ToString(pids[1])>>}
               ELSE {<<"pid", ToString(pids[1]) \o " (+" \o ToString(Len(pids) - 1) \o ")">>}
        memory == IF total_mem > 0
                  THEN {<<"memory", ToString(RoundDiv(total_mem, BytesPerMB)) \o " MB">>}
                  ELSE {}
    IN  IF tool.process_pattern = "" THEN Returned(FALSE, {})
        ELSE IF ev.kind = "oserror" THEN Returned(FALSE, {})
        ELSE IF ev.kind # "output" THEN Raised(ExcOf(ev))
        ELSE IF ev.rows = <<>> THEN Returned(FALSE, {})
        ELSE Returned(Len(pids) > 0, pid \cup memory)

\* the events the environment can answer a tool's probe with
ProbeEvents(tool) ==
    LET strategy == EffectiveHealthCheck(tool)
    IN  IF strategy = "http" THEN HttpEvents
        ELSE IF strategy = "tcp" THEN TcpEvents
        ELSE IF strategy = "process" THEN ProcessEvents
        ELSE {}

\* a mutation of the except clause: nothing is caught
CaughtByCheckToolNothing(exc) == FALSE

\* _check_tool's "except Exception": CancelledError is a BaseException and passes
CaughtByCheckTool(exc) == exc = "Exception"

\* _check_tool up to line 91: the strategy's probe, and the except clause.
\* skipped: the early return for no strategy; propagates: an exception leaves _check_tool
CheckTool(tool, ev) ==
    LET strategy == EffectiveHealthCheck(tool)
        r == IF strategy = "http" THEN CheckHttp(tool, ev)
             ELSE IF strategy = "tcp" THEN
                  LET c == CheckTcp(tool, ev)
                  IN  IF ~c.raised /\ c.up
                      THEN Returned(TRUE, {<<"endpoint", Endpoint(tool.url)>>})
                      ELSE c
             ELSE CheckProcess(tool, ev)
    IN  IF strategy = "none"
        THEN [skipped |-> TRUE, propagates |-> FALSE, up |-> FALSE, details |-> {}]
        ELSE IF r.raised /\ CaughtByCheckTool(r.exc)
        THEN [skipped |-> FALSE, propagates |-> FALSE, up |-> FALSE, details |-> {}]
        ELSE IF r.raised
        THEN [skipped |-> FALSE, propagates |-> TRUE, up |-> FALSE, details |-> {}]
        ELSE [skipped |-> FALSE, propagates |-> FALSE, up |-> r.up, details |-> r.details]

\* a mutation of lines 94-99: a failed probe keeps the details of the record it replaces
NewToolStatusMerge(old, up, details, t0, t1) ==
    [status |-> IF up THEN "up" ELSE "down",
     latency_ms |-> t1 - t0,
     last_checked |-> t1,
     details |-> IF up THEN details ELSE old.details \cup details]

\* a mutation of line 95: a probe that failed puts the record back to unknown
NewToolStatusUnknownOnFail(old, up, details, t0, t1) ==
    [status |-> IF up THEN "up" ELSE "unknown",
     latency_ms |-> t1 - t0,
     last_checked |-> t1,
     details |-> details]

\* lines 93-99: the record written for a probe that started at t0 and ended at t1
NewToolStatus(old, up, details, t0, t1) ==
    [status |-> IF up THEN "up" ELSE "down",
     latency_ms |-> t1 - t0,
     last_checked |-> t1,
     details |-> details]

\* a mutation of line 94: an up record is not replaced by a down record
WriteStatusStickyUp(st, name, rec) ==
    IF name \in DOMAIN st /\ st[name].status = "up" /\ rec.status = "down"
    THEN st
    ELSE [n \in DOMAIN st \cup {name} |-> IF n = name THEN rec ELSE st[n]]

\* self.statuses[tool.name] = ToolStatus(...)
WriteStatus(st, name, rec) ==
    [n \in DOMAIN st \cup {name} |-> IF n = name THEN rec ELSE st[n]]

\* a mutation of _init_statuses: only the tools that are probed get a record
InitStatusesProbedOnly ==
    [n \in {m \in ToolNames : EffectiveHealthCheck(ToolNamed(m)) # "none"} |-> Unknown]

\* _init_statuses: one default record per configured tool
InitStatuses == [n \in ToolNames |-> Unknown]

----------------------------------------------------------------------------
(* health.py: _check_all.  A round is one _check_all call: the probes of   *)
(* its gather that have not finished yet, and when they started.           *)

\* who awaits the round: run_initial_check, the polling task or interval
\* timer, or a handler that calls _check_all itself
Slots == {"initial", "periodic", "adhoc"}

\* no _check_all in flight in the slot
IdleRound ==
    [active |-> FALSE, pending |-> {}, cancelled |-> FALSE, t0 |-> 0,
     clientOpen |-> FALSE, written |-> {}]

\* line 70-71: one _check_tool per tool is started; a tool with no strategy
\* returns at once (line 89), the others wait for their probe
FanOut(t, isOpen) ==
    [active |-> TRUE,
     pending |-> {n \in ToolNames : ~CheckTool(ToolNamed(n), RaiseEvent).skipped},
     cancelled |-> FALSE, t0 |-> t, clientOpen |-> isOpen, written |-> {}]

\* a mutation of the gather: the round is over when any one probe has finished
CheckAllDoneAny(r) == r.active /\ (r.written # {} \/ r.pending = {})

\* await asyncio.gather(*tasks, return_exceptions=True) is over: every probe has finished
CheckAllDone(r) == r.active /\ r.pending = {}

\* get_all_statuses / the templates / _refresh_table: the status of each row
Render(st) == [served |-> TRUE, rows |-> [n \in DOMAIN st |-> st[n].status]]

NotShown == [served |-> FALSE, rows |-> [n \in {} |-> ""]]

\* history: no probe of the tool has completed
NoResult ==
    [done |-> FALSE, exc |-> "", propagated |-> FALSE, up |-> FALSE,
     details |-> {}, t0 |-> 0, t1 |-> 0]

\* no function is called on its own
NoCall == [fn |-> "none"]

Init ==
    /\ hub_config \in Configs
    /\ frontend \in {"web", "tui", "api"}
    /\ fe = "init"
    /\ statuses = [n \in {} |-> Unknown]
    /\ task = "none"
    /\ client = "none"
    /\ rounds = [s \in Slots |-> IdleRound]
    /\ adhocPc = "idle"
    /\ stopPc = "idle"
    /\ stops = 0
    /\ stopRaised = FALSE
    /\ now = 1
    /\ lastResult = [n \in AllNames |-> NoResult]
    /\ shown = NotShown
    /\ acloses = 0
    /\ call = NoCall

\* run_initial_check up to its await (lifespan line 277, on_mount line 147)
RunInitialCheck ==
    /\ fe = "init"
    /\ stopPc = "idle"
    /\ stops = 0
    /\ statuses' = InitStatuses
    /\ client' = "open"
    /\ rounds' = [rounds EXCEPT !["initial"] = FanOut(now, TRUE)]
    /\ fe' = "priming"
    /\ UNCHANGED <<hub_config, frontend, task, adhocPc, stopPc, stops, stopRaised, now,
                   lastResult, shown, acloses, call>>

\* run_initial_check returns; lifespan goes on to start_polling and yield,
\* on_mount to _refresh_table and set_interval, the api caller gets control back
InitialCheckReturns ==
    /\ fe = "priming"
    /\ CheckAllDone(rounds["initial"])
    /\ rounds' = [rounds EXCEPT !["initial"] = IdleRound]
    /\ fe' = "serving"
    /\ task' = IF frontend = "web" THEN "sleeping" ELSE task
    /\ shown' = IF frontend = "tui" THEN Render(statuses) ELSE shown
    /\ UNCHANGED <<hub_config, frontend, statuses, client, adhocPc, stopPc, stops,
                   stopRaised, now, lastResult, acloses, call>>

\* time passes
Tick ==
    /\ now < MaxClock
    /\ now' = now + 1
    /\ UNCHANGED <<hub_config, frontend, fe, statuses, task, client, rounds, adhocPc,
                   stopPc, stops, stopRaised, lastResult, shown, acloses, call>>

\* _check_tool from its await to its end (lines 80-99), resumed with event ev
\* in round s: the record is written unless an exception leaves _check_tool
CheckToolResumes(s, n, ev) ==
    LET r == CheckTool(ToolNamed(n), ev)
    IN  /\ IF r.propagates
           THEN UNCHANGED statuses
           ELSE statuses' = WriteStatus(statuses, n,
                    NewToolStatus(statuses[n], r.up, r.details, rounds[s].t0, now))
        /\ lastResult' =
               IF ev = CancelEvent THEN lastResult
               ELSE [lastResult EXCEPT ![n] =
                       [done |-> TRUE,
                        exc |-> IF ev = RaiseEvent THEN ExcOf(ev) ELSE "",
                        propagated |-> r.propagates, up |-> r.up,
                        details |-> r.details, t0 |-> rounds[s].t0, t1 |-> now]]
        /\ rounds' = [rounds EXCEPT
               ![s].pending = @ \ {n},
               ![s].written = IF r.propagates THEN @ ELSE @ \cup {n}]

\* a probe of the round ends with an event of its environment
ProbeCompletes(s, n) ==
    /\ rounds[s].active
    /\ n \in rounds[s].pending
    /\ ~rounds[s].cancelled
    /\ \E ev \in ProbeEvents(ToolNamed(n)) :
         /\ (EffectiveHealthCheck(ToolNamed(n)) = "http" /\ ~rounds[s].clientOpen)
               => ev = RaiseEvent
         /\ CheckToolResumes(s, n, ev)
    /\ UNCHANGED <<hub_config, frontend, fe, task, client, adhocPc, stopPc, stops,
                   stopRaised, now, shown, acloses, call>>

\* a probe of a cancelled round resumes with CancelledError at its await
ProbeCancelled(s, n) ==
    /\ rounds[s].active
    /\ n \in rounds[s].pending
    /\ rounds[s].cancelled
    /\ CheckToolResumes(s, n, CancelEvent)
    /\ UNCHANGED <<hub_config, frontend, fe, task, client, adhocPc, stopPc, stops,
                   stopRaised, now, shown, acloses, call>>

----------------------------------------------------------------------------
(* health.py: start_polling, _poll_loop, stop. *)

\* the front end is shutting down or has shut down: lifespan is past its
\* yield, the TUI app has dispatched on_unmount
ShuttingDown == stopPc # "idle" \/ stops > 0

\* start_polling, called by the api caller (lifespan calls it in InitialCheckReturns)
StartPolling ==
    /\ frontend = "api"
    /\ fe = "serving"
    /\ adhocPc = "idle"
    /\ ~ShuttingDown
    /\ task = "none"
    /\ task' = "sleeping"
    /\ UNCHANGED <<hub_config, frontend, fe, statuses, client, rounds, adhocPc, stopPc,
                   stops, stopRaised, now, lastResult, shown, acloses, call>>

\* _poll_loop: the sleep is over, _check_all starts the next round
PollLoopWakes ==
    /\ task = "sleeping"
    /\ rounds' = [rounds EXCEPT !["periodic"] = FanOut(now, client = "open")]
    /\ task' = "round"
    /\ UNCHANGED <<hub_config, frontend, fe, statuses, client, adhocPc, stopPc, stops,
                   stopRaised, now, lastResult, shown, acloses, call>>

\* a mutation of _poll_loop: the loop ends after a round in which a probe failed
PollLoopRoundEndsUnlessDown ==
    /\ task = "round"
    /\ CheckAllDone(rounds["periodic"])
    /\ rounds' = [rounds EXCEPT !["periodic"] = IdleRound]
    /\ task' = IF \E n \in rounds["periodic"].written : statuses[n].status = "down"
               THEN "cancelled" ELSE "sleeping"
    /\ UNCHANGED <<hub_config, frontend, fe, statuses, client, adhocPc, stopPc, stops,
                   stopRaised, now, lastResult, shown, acloses, call>>

\* _poll_loop: _check_all returns, the loop goes back to its sleep
PollLoopRoundEnds ==
    /\ task = "round"
    /\ CheckAllDone(rounds["periodic"])
    /\ rounds' = [rounds EXCEPT !["periodic"] = IdleRound]
    /\ task' = "sleeping"
    /\ UNCHANGED <<hub_config, frontend, fe, statuses, client, adhocPc, stopPc, stops,
                   stopRaised, now, lastResult, shown, acloses, call>>

\* the cancelled polling task ends: CancelledError leaves the sleep, or leaves
\* the gather once every cancelled probe has ended
PollLoopCancelled ==
    /\ task = "cancelling"
    /\ ~rounds["periodic"].active \/ rounds["periodic"].pending = {}
    /\ rounds' = [rounds EXCEPT !["periodic"] = IdleRound]
    /\ task' = "cancelled"
    /\ UNCHANGED <<hub_config, frontend, fe, statuses, client, adhocPc, stopPc, stops,
                   stopRaised, now, lastResult, shown, acloses, call>>

\* a mutation of line 55: no test of self._task before cancel()
StopHasTaskAlways(t) == TRUE

\* line 55: if self._task
StopHasTask(t) == t # "none"

\* line 59: except asyncio.CancelledError
StopCatches(exc) == exc = "CancelledError"

\* lines 61-62 and the return: close the client if there is one.  Closing an
\* open client suspends once; with no client, or a closed one, stop() returns at once
StopCloseClient ==
    /\ acloses' = IF client # "none" THEN acloses + 1 ELSE acloses
    /\ IF client = "open"
       THEN /\ stopPc' = "aclose"
            /\ client' = "closed"
            /\ UNCHANGED stops
       ELSE /\ stopPc' = "idle"
            /\ stops' = stops + 1
            /\ UNCHANGED client

\* lines 58-62: await self._task raises CancelledError into stop()
StopAfterAwait ==
    IF StopCatches("CancelledError")
    THEN /\ StopCloseClient
         /\ UNCHANGED stopRaised
    ELSE /\ stopRaised' = TRUE
         /\ stopPc' = "idle"
         /\ stops' = stops + 1
         /\ UNCHANGED <<client, acloses>>

\* stop() is called: lifespan after its yield, on_unmount, or the api caller.
\* Lines 55-58 up to the await, or up to the return when nothing suspends
StopCalled ==
    /\ stopPc = "idle"
    /\ fe # "priming"
    /\ IF frontend = "api"
       THEN stops < MaxStops /\ adhocPc = "idle"
       ELSE stops = 0 /\ fe = "serving"
    /\ IF ~StopHasTask(task)
       THEN /\ StopCloseClient
            /\ UNCHANGED <<task, rounds, stopRaised>>
       ELSE IF task = "none"
       THEN \* None.cancel(): AttributeError leaves stop()
            /\ stopRaised' = TRUE
            /\ stopPc' = "idle"
            /\ stops' = stops + 1
            /\ UNCHANGED <<task, rounds, client, acloses>>
       ELSE IF task = "cancelled"
       THEN \* cancel() of a task that has ended does nothing, the await does not suspend
            /\ StopAfterAwait
            /\ UNCHANGED <<task, rounds>>
       ELSE /\ task' = "cancelling"
            /\ rounds' = IF task = "round"
                         THEN [rounds EXCEPT !["periodic"].cancelled = TRUE]
                         ELSE rounds
            /\ stopPc' = "awaitTask"
            /\ UNCHANGED <<stops, stopRaised, client, acloses>>
    /\ UNCHANGED <<hub_config, frontend, fe, statuses, adhocPc, now, lastResult, shown, call>>

\* the awaited task has ended cancelled: stop() resumes
StopTaskAwaited ==
    /\ stopPc = "awaitTask"
    /\ task = "cancelled"
    /\ StopAfterAwait
    /\ UNCHANGED <<hub_config, frontend, fe, statuses, task, rounds, adhocPc, now,
                   lastResult, shown, call>>

\* line 62: aclose() is over, stop() returns
StopReturns ==
    /\ stopPc = "aclose"
    /\ stopPc' = "idle"
    /\ stops' = stops + 1
    /\ UNCHANGED <<hub_config, frontend, fe, statuses, task, client, rounds, adhocPc,
                   stopRaised, now, lastResult, shown, acloses, call>>

----------------------------------------------------------------------------
(* tui.py: the interval timer and the handlers that call _check_all; and   *)
(* the readers of both front ends.                                         *)

\* set_interval(POLL_INTERVAL, self._poll_health): the timer fires, and
\* _poll_health calls _check_all (the timer awaits its callback)
PollHealthStarts ==
    /\ frontend = "tui"
    /\ fe = "serving"
    /\ ~ShuttingDown
    /\ ~rounds["periodic"].active
    /\ rounds' = [rounds EXCEPT !["periodic"] = FanOut(now, client = "open")]
    /\ UNCHANGED <<hub_config, frontend, fe, statuses, task, client, adhocPc, stopPc,
                   stops, stopRaised, now, lastResult, shown, acloses, call>>

\* _poll_health: _check_all returns, _refresh_table
PollHealthEnds ==
    /\ frontend = "tui"
    /\ CheckAllDone(rounds["periodic"])
    /\ rounds' = [rounds EXCEPT !["periodic"] = IdleRound]
    /\ shown' = IF ShuttingDown THEN shown ELSE Render(statuses)
    /\ UNCHANGED <<hub_config, frontend, fe, statuses, task, client, adhocPc, stopPc,
                   stops, stopRaised, now, lastResult, acloses, call>>

\* a mutation of the ad-hoc check: it cancels the periodic round and restarts the sleep
AdhocCheckAllRestarts ==
    /\ frontend \in {"tui", "api"}
    /\ fe = "serving"
    /\ ~ShuttingDown
    /\ adhocPc = "idle"
    /\ rounds' = [rounds EXCEPT !["adhoc"] = FanOut(now, client = "open"),
                                !["periodic"] = IdleRound]
    /\ task' = IF task = "round" THEN "sleeping" ELSE task
    /\ adhocPc' = "round"
    /\ UNCHANGED <<hub_config, frontend, fe, statuses, client, stopPc, stops,
                   stopRaised, now, lastResult, shown, acloses, call>>

\* action_refresh (key r), or the api caller's force check: _check_all is called
AdhocCheckAll ==
    /\ frontend \in {"tui", "api"}
    /\ fe = "serving"
    /\ ~ShuttingDown
    /\ adhocPc = "idle"
    /\ rounds' = [rounds EXCEPT !["adhoc"] = FanOut(now, client = "open")]
    /\ adhocPc' = "round"
    /\ UNCHANGED <<hub_config, frontend, fe, statuses, task, client, stopPc, stops,
                   stopRaised, now, lastResult, shown, acloses, call>>

\* action_start_service / _do_start (key s) on a tool with a start_command:
\* launch_process gave a pid, the handler sleeps 3 s before it checks
DoStartLaunched ==
    /\ frontend = "tui"
    /\ fe = "serving"
    /\ ~ShuttingDown
    /\ adhocPc = "idle"
    /\ \E i \in DOMAIN Tools : Tools[i].start_command # ""
    /\ adhocPc' = "sleep"
    /\ UNCHANGED <<hub_config, frontend, fe, statuses, task, client, rounds, stopPc,
                   stops, stopRaised, now, lastResult, shown, acloses, call>>

\* _do_start: the sleep is over, _check_all is called
DoStartChecks ==
    /\ adhocPc = "sleep"
    /\ rounds' = [rounds EXCEPT !["adhoc"] = FanOut(now, client = "open")]
    /\ adhocPc' = "round"
    /\ UNCHANGED <<hub_config, frontend, fe, statuses, task, client, stopPc, stops,
                   stopRaised, now, lastResult, shown, acloses, call>>

\* the handler's _check_all returns: _refresh_table in the TUI
AdhocEnds ==
    /\ adhocPc = "round"
    /\ CheckAllDone(rounds["adhoc"])
    /\ rounds' = [rounds EXCEPT !["adhoc"] = IdleRound]
    /\ adhocPc' = "idle"
    /\ shown' = IF frontend = "tui" /\ ~ShuttingDown THEN Render(statuses) ELSE shown
    /\ UNCHANGED <<hub_config, frontend, fe, statuses, task, client, stopPc, stops,
                   stopRaised, now, lastResult, acloses, call>>

\* lifespan: the routes are served between the yield and the shutdown
LifespanServing == fe = "serving" /\ ~ShuttingDown

\* GET /, /partials/status, /api/status: a reader is handed the statuses
ServeStatus ==
    /\ frontend = "web"
    /\ LifespanServing
    /\ shown' = Render(statuses)
    /\ UNCHANGED <<hub_config, frontend, fe, statuses, task, client, rounds, adhocPc,
                   stopPc, stops, stopRaised, now, lastResult, acloses, call>>

Next ==
    \/ Tick
    \/ RunInitialCheck
    \/ InitialCheckReturns
    \/ \E s \in Slots, n \in ToolNames : ProbeCompletes(s, n)
    \/ \E s \in Slots, n \in ToolNames : ProbeCancelled(s, n)
    \/ StartPolling
    \/ PollLoopWakes
    \/ PollLoopRoundEnds
    \/ PollLoopCancelled
    \/ StopCalled
    \/ StopTaskAwaited
    \/ StopReturns
    \/ PollHealthStarts
    \/ PollHealthEnds
    \/ AdhocCheckAll
    \/ DoStartLaunched
    \/ DoStartChecks
    \/ AdhocEnds
    \/ ServeStatus

Spec == Init /\ [][Next]_vars

----------------------------------------------------------------------------
(* The callers that start the polling task (lifespan, a caller of the API),  *)
(* with the scheduling asyncio gives: a sleep that is due ends, a probe ends *)
(* (with its result, its error or its timeout), a gather whose probes have   *)
(* all ended returns.                                                          *)

PollingInit == Init /\ frontend \in {"web", "api"}

PollingNext ==
    \/ Tick
    \/ RunInitialCheck
    \/ InitialCheckReturns
    \/ \E s \in Slots, n \in ToolNames : ProbeCompletes(s, n)
    \/ \E s \in Slots, n \in ToolNames : ProbeCancelled(s, n)
    \/ StartPolling
    \/ PollLoopWakes
    \/ PollLoopRoundEnds
    \/ PollLoopCancelled
    \/ StopCalled
    \/ StopTaskAwaited
    \/ StopReturns
    \/ AdhocCheckAll
    \/ AdhocEnds
    \/ ServeStatus

SpecPolling ==
    /\ PollingInit
    /\ [][PollingNext]_vars
    /\ WF_vars(PollLoopWakes)
    /\ WF_vars(PollLoopRoundEnds)
    /\ \A n \in AllNames : WF_vars(ProbeCompletes("periodic", n))

----------------------------------------------------------------------------
(* Functions called on their own.  The engine is not constructed; `call`   *)
(* holds the arguments the function is called with and what it returns.    *)

\* no HealthChecker is constructed
EngineUnused ==
    /\ hub_config = <<>>
    /\ frontend = "none"
    /\ fe = "init"
    /\ statuses = [n \in {} |-> Unknown]
    /\ task = "none"
    /\ client = "none"
    /\ rounds = [s \in Slots |-> IdleRound]
    /\ adhocPc = "idle"
    /\ stopPc = "idle"
    /\ stops = 0
    /\ stopRaised = FALSE
    /\ now = 1
    /\ lastResult = [n \in AllNames |-> NoResult]
    /\ shown = NotShown
    /\ acloses = 0

(* config.py effective_health_check, as _check_tool calls it (line 74). *)

\* Literal["http", "tcp", "process"] | None
HealthCheckTags == {"", "http", "tcp", "process"}

\* a tool with each combination of the fields the strategy is resolved from
StrategyTools ==
    { ToolConfig("tool", u, hu, hc, pp, "") :
        u \in {NoUrl, Url("localhost", 8080)},
        hu \in {NoUrl, Url("localhost", 9090)},
        hc \in HealthCheckTags,
        pp \in {"", "tool.py"} }

StrategyInit ==
    /\ EngineUnused
    /\ call \in { [fn |-> "_check_tool", tool |-> t, strategy |-> "unset",
                   fresh |-> FALSE, reloaded |-> FALSE] : t \in StrategyTools }

\* _check_tool line 74: strategy = tool.effective_health_check()
CheckToolStrategy ==
    /\ call.fn = "_check_tool"
    /\ call' = [call EXCEPT !.strategy = EffectiveHealthCheck(call.tool),
                            !.fresh = TRUE]
    /\ UNCHANGED engineVars

\* between two checks the fields of the ToolConfig are assigned new values
\* (the model object is mutable; a reload of tools.yaml)
Reconfigure ==
    /\ call.fn = "_check_tool"
    /\ \E t \in StrategyTools :
         /\ t # call.tool
         /\ call' = [call EXCEPT !.tool = t, !.fresh = FALSE, !.reloaded = TRUE]
    /\ UNCHANGED engineVars

StrategyNext == CheckToolStrategy \/ Reconfigure

SpecStrategy == StrategyInit /\ [][StrategyNext]_vars

----------------------------------------------------------------------------
(* health.py: _check_tool called on one tool, with each answer its probe   *)
(* can get.                                                                *)

\* tools with each shape of URL the probes parse
ProbeTools ==
    { ToolConfig("web", Url("localhost", 8080), NoUrl, "", "", ""),
      ToolConfig("site", Url("example.org", 0), NoUrl, "", "", ""),
      ToolConfig("api", Url("localhost", 3000), Url("localhost", 3001), "", "", ""),
      ToolConfig("db", Url("db.local", 5432), NoUrl, "tcp", "", ""),
      ToolConfig("cache", Url("cache.local", 0), NoUrl, "tcp", "", ""),
      ToolConfig("sock", Url("", 6379), NoUrl, "tcp", "", ""),
      ToolConfig("bare", NoUrl, NoUrl, "tcp", "", ""),
      ToolConfig("worker", NoUrl, NoUrl, "", "worker.py", ""),
      ToolConfig("ghost", NoUrl, NoUrl, "process", "", "") }

\* bodies: no JSON, JSON that is no object, the empty object, an object with
\* telemetry, an object whose fields have the wrong types, and an object on
\* which the extraction raises
HttpBodies ==
    { NoBody,
      Body(TRUE, FALSE, NoData),
      Body(TRUE, TRUE, NoData),
      Body(TRUE, TRUE, [NoData EXCEPT !.version = Text("1.2"), !.uptime = Num(3661),
                                     !.memory = Mem("dict", Num(1048576))]),
      Body(TRUE, TRUE, [NoData EXCEPT !.version = Num(0), !.uptime = Text("x"),
                                     !.memoryMB = Mem("int", Absent),
                                     !.memoryIndex = Index("str", Absent, Absent, Absent),
                                     !.types = Text("x")]),
      Body(TRUE, TRUE, [NoData EXCEPT !.version = Text("1.2"), !.types = NaN]) }

\* responses around the 400 boundary, with each of the bodies
HttpAnswers ==
    { Event("response", c, b, <<>>) :
        c \in {200, 301, 399, 400, 404, 500},
        b \in HttpBodies }
    \cup {RaiseEvent}

\* the rows wmic can print: a field that is no number is -1
RowKinds ==
    { Row(pid, ws) : pid \in {-1, 1234, 5678}, ws \in {-1, 0, 524288, 1048576, 2097152} }

RECURSIVE RowsUpTo(_)
\* the sequences of at most n rows
RowsUpTo(n) ==
    IF n = 0 THEN {<<>>}
    ELSE RowsUpTo(n - 1) \cup {Append(rows, r) : rows \in RowsUpTo(n - 1), r \in RowKinds}

ProcessAnswers ==
    { Event("output", 0, NoBody, rows) : rows \in RowsUpTo(MaxRows) }
    \cup {Event("oserror", 0, NoBody, <<>>), RaiseEvent}

\* the answers the environment can give the probe of a tool
ProbeAnswers(tool) ==
    LET strategy == EffectiveHealthCheck(tool)
    IN  IF strategy = "http" THEN HttpAnswers
        ELSE IF strategy = "tcp" THEN TcpEvents
        ELSE IF strategy = "process" THEN ProcessAnswers
        ELSE {}

\* _check_tool has not returned
NotProbed == [skipped |-> FALSE, propagates |-> FALSE, up |-> FALSE, details |-> {<<"", "">>}]

ProbeInit ==
    /\ EngineUnused
    /\ call \in { [fn |-> "probe", tool |-> t, ev |-> e, result |-> NotProbed] :
                  t \in ProbeTools, e \in UNION {ProbeAnswers(u) : u \in ProbeTools} }
    /\ call.ev \in ProbeAnswers(call.tool)

\* _check_tool lines 74-91 on the tool, its probe answered with the event
ProbeReturns ==
    /\ call.fn = "probe"
    /\ call.result = NotProbed
    /\ call' = [call EXCEPT !.result = CheckTool(call.tool, call.ev)]
    /\ UNCHANGED engineVars

ProbeNext == ProbeReturns

SpecProbe == ProbeInit /\ [][ProbeNext]_vars

----------------------------------------------------------------------------
(* health.py: _extract_health_info called on the object a health endpoint  *)
(* answered with.                                                          *)

\* objects that differ in memoryMB and memory
MemoryData ==
    { [NoData EXCEPT !.memoryMB = mb, !.memory = m, !.types = t] :
        mb \in {Mem("absent", Absent), Mem("int", Absent)}
               \cup {Mem("dict", rss) : rss \in {Absent, Text("x"), Num(0), Num(512), NaN}},
        m \in {Mem("absent", Absent)}
              \cup {Mem("dict", rss) :
                      rss \in {Absent, Num(0), Num(1048576), Num(1572864), Num(2621440), NaN}},
        t \in {Absent, Num(7)} }

\* objects that differ in version and ver
VersionData ==
    { [NoData EXCEPT !.version = v, !.ver = w] :
        v \in {Absent, Null, Text(""), Text("1.2"), Num(0), Num(2)},
        w \in {Absent, Text("2.0")} }

\* objects that differ in uptimeSeconds and uptime, with and without a count
UptimeData ==
    { [NoData EXCEPT !.uptimeSeconds = us, !.uptime = u, !.types = t] :
        us \in {Absent, Text("x"), Num(0), Num(59), Num(3599), Num(3600), Num(3661), NaN},
        u \in {Absent, Text("x"), Num(59), Num(3661)},
        t \in {Absent, Num(7), NaN} }

\* objects that differ in memoryIndex and the top-level counts
CountData ==
    { [NoData EXCEPT !.memoryIndex = idx, !.types = t, !.files = f, !.members = m] :
        idx \in {Index("absent", Absent, Absent, Absent), Index("int", Absent, Absent, Absent)}
                \cup {Index("dict", nt, nf, nm) :
                        nt \in {Absent, Text("x"), Num(1234567), NaN},
                        nf \in {Absent, Text("x"), Num(12)},
                        nm \in {Absent, Num(0)}},
        t \in {Absent, Text("x"), Num(7), NaN},
        f \in {Absent, Text("x"), Num(1000)},
        m \in {Absent, Num(999999)} }

ExtractData == MemoryData \cup VersionData \cup UptimeData \cup CountData

\* _extract_health_info has not returned
NotExtracted == [raised |-> FALSE, info |-> {<<"", "">>}]

ExtractInit ==
    /\ EngineUnused
    /\ call \in { [fn |-> "_extract_health_info", data |-> d, result |-> NotExtracted] :
                  d \in ExtractData }

\* _extract_health_info(data) returns its info, or raises
ExtractReturns ==
    /\ call.fn = "_extract_health_info"
    /\ call.result = NotExtracted
    /\ call' = [call EXCEPT !.result = ExtractHealthInfo(call.data)]
    /\ UNCHANGED engineVars

ExtractNext == ExtractReturns

SpecExtract == ExtractInit /\ [][ExtractNext]_vars

----------------------------------------------------------------------------
(* health.py get_all_statuses and app.py's readers, with the identity of   *)
(* the objects: the heap holds the details dicts, a ToolStatus holds the   *)
(* address of its details dict.                                            *)

\* the number of probe completions after priming
MaxWrites == 2

\* the tools of the checker the readers read
ReaderNames == {"web", "db"}

\* a ToolStatus, or an entry of the mapping get_all_statuses returns: the
\* status and the address of the details dict
Entry(status, details) == [status |-> status, details |-> details]

\* what a reader holds: nothing, the mapping get_all_statuses returned
\* (rows), or checker.statuses itself; was: its contents when it was handed over
NothingHeld == [kind |-> "none", rows |-> <<>>, was |-> <<>>]

\* the contents of a mapping of entries: each details address replaced by
\* the dict it points to
Contents(rows, heap) ==
    [n \in DOMAIN rows |-> [status |-> rows[n].status, details |-> heap[rows[n].details]]]

\* get_all_statuses lines 247-257: a new mapping with a new entry per tool;
\* "details": st.details puts the ToolStatus's own dict into the entry
GetAllStatuses(statuses_) ==
    [n \in DOMAIN statuses_ |-> Entry(statuses_[n].status, statuses_[n].details)]

\* _init_statuses: one ToolStatus() per tool, each with a dict of its own
ReadersInit ==
    /\ EngineUnused
    /\ call = [fn |-> "readers",
               heap |-> <<{}, {}>>,
               statuses |-> [n \in ReaderNames |->
                               Entry("unknown", IF n = "web" THEN 1 ELSE 2)],
               held |-> NothingHeld,
               writes |-> 0,
               edited |-> FALSE]

\* _check_tool lines 77-99: a probe completes, a new ToolStatus with a new
\* details dict replaces the tool's record
CheckToolWrites ==
    /\ call.fn = "readers"
    /\ call.writes < MaxWrites
    /\ \E n \in ReaderNames, up \in BOOLEAN :
         LET details == IF up /\ n = "web" THEN {<<"port", "8080">>} ELSE {}
         IN  call' = [call EXCEPT
                 !.heap = Append(@, details),
                 !.statuses[n] = Entry(IF up THEN "up" ELSE "down", Len(call.heap) + 1),
                 !.writes = @ + 1]
    /\ UNCHANGED engineVars

\* a caller gets the result of get_all_statuses (api_status, line 311)
GetAllStatusesReturns ==
    /\ call.fn = "readers"
    /\ call.held = NothingHeld
    /\ call' = [call EXCEPT !.held =
                   [kind |-> "snapshot", rows |-> GetAllStatuses(call.statuses),
                    was |-> Contents(call.statuses, call.heap)]]
    /\ UNCHANGED engineVars

\* dashboard and partials_status put checker.statuses into the template
\* context (lines 293, 304)
Dashboard ==
    /\ call.fn = "readers"
    /\ call.held = NothingHeld
    /\ call' = [call EXCEPT !.held =
                   [kind |-> "live", rows |-> <<>>,
                    was |-> Contents(call.statuses, call.heap)]]
    /\ UNCHANGED engineVars

\* the caller changes the mapping it was returned: an entry's status
CallerSetsStatus ==
    /\ call.fn = "readers"
    /\ call.held.kind = "snapshot"
    /\ ~call.edited
    /\ \E n \in ReaderNames :
         call' = [call EXCEPT !.held.rows[n].status = "edited", !.edited = TRUE]
    /\ UNCHANGED engineVars

\* the caller changes the mapping it was returned: a key of an entry's details
CallerSetsDetail ==
    /\ call.fn = "readers"
    /\ call.held.kind = "snapshot"
    /\ ~call.edited
    /\ \E n \in ReaderNames :
         call' = [call EXCEPT !.heap[call.held.rows[n].details] = @ \cup {<<"note", "x">>},
                              !.edited = TRUE]
    /\ UNCHANGED engineVars

ReadersNext ==
    \/ CheckToolWrites
    \/ GetAllStatusesReturns
    \/ Dashboard
    \/ CallerSetsStatus
    \/ CallerSetsDetail

SpecReaders == ReadersInit /\ [][ReadersNext]_vars

----------------------------------------------------------------------------
(* health.py: start_polling and stop called in any order by a caller of    *)
(* the API.  Every create_task makes a task of its own; self._task holds   *)
(* the last one.  A round of a task is one step here.                      *)

\* start_polling() is called at most this many times
MaxStarts == 4

\* no start_polling yet: the tasks created so far (each "sleeping", "round",
\* "cancelling" or "cancelled"), self._task as a place in them (0 is None),
\* where stop() is, and whether the last call that returned was stop()
PollersInit ==
    /\ EngineUnused
    /\ call = [fn |-> "pollers", tasks |-> <<>>, _task |-> 0, stopPc |-> "idle",
               stopped |-> FALSE]

\* line 52: self._task = asyncio.create_task(self._poll_loop())
StartPollingCalled ==
    /\ call.fn = "pollers"
    /\ call.stopPc = "idle"
    /\ Len(call.tasks) < MaxStarts
    /\ call' = [call EXCEPT !.tasks = Append(@, "sleeping"),
                            !._task = Len(call.tasks) + 1,
                            !.stopped = FALSE]
    /\ UNCHANGED engineVars

\* line 66-67 of task i: the sleep is over, _check_all is awaited
PollerWakes(i) ==
    /\ call.fn = "pollers"
    /\ call.tasks[i] = "sleeping"
    /\ call' = [call EXCEPT !.tasks[i] = "round"]
    /\ UNCHANGED engineVars

\* line 67 of task i: _check_all returns, back to the sleep
PollerRoundEnds(i) ==
    /\ call.fn = "pollers"
    /\ call.tasks[i] = "round"
    /\ call' = [call EXCEPT !.tasks[i] = "sleeping"]
    /\ UNCHANGED engineVars

\* task i, cancelled, ends with CancelledError
PollerCancelled(i) ==
    /\ call.fn = "pollers"
    /\ call.tasks[i] = "cancelling"
    /\ call' = [call EXCEPT !.tasks[i] = "cancelled"]
    /\ UNCHANGED engineVars

\* stop() lines 55-58: self._task, if there is one, is cancelled and awaited;
\* with no task, or a task that has ended, stop() returns at once
StopCancels ==
    /\ call.fn = "pollers"
    /\ call.stopPc = "idle"
    /\ ~call.stopped
    /\ IF StopHasTask(IF call._task = 0 THEN "none" ELSE call.tasks[call._task])
          /\ call.tasks[call._task] # "cancelled"
       THEN call' = [call EXCEPT !.tasks[call._task] = "cancelling",
                                 !.stopPc = "awaitTask"]
       ELSE call' = [call EXCEPT !.stopped = TRUE]
    /\ UNCHANGED engineVars

\* stop() lines 58-62: the awaited task has ended, stop() returns
StopResumes ==
    /\ call.fn = "pollers"
    /\ call.stopPc = "awaitTask"
    /\ call.tasks[call._task] = "cancelled"
    /\ call' = [call EXCEPT !.stopPc = "idle", !.stopped = TRUE]
    /\ UNCHANGED engineVars

PollersNext ==
    \/ StartPollingCalled
    \/ \E i \in 1..MaxStarts : i \in DOMAIN call.tasks /\ PollerWakes(i)
    \/ \E i \in 1..MaxStarts : i \in DOMAIN call.tasks /\ PollerRoundEnds(i)
    \/ \E i \in 1..MaxStarts : i \in DOMAIN call.tasks /\ PollerCancelled(i)
    \/ StopCancels
    \/ StopResumes

SpecPollers == PollersInit /\ [][PollersNext]_vars

----------------------------------------------------------------------------
(* window.py, and its callers api_focus (app.py) and action_open_tool      *)
(* (tui.py).  A title is a sequence of characters; a desktop is the        *)
(* sequence of top-level windows in the order EnumWindows gives them.      *)

\* sys.platform == "win32", or not
Platforms == {"win32", "other"}

\* str.lower() on the characters that occur in the titles
LowerChar(c) == CASE c = "A" -> "a" [] c = "B" -> "b" [] OTHER -> c

Lower(t) == [i \in DOMAIN t |-> LowerChar(t[i])]

\* needle in haystack
Contains(hay, needle) ==
    \E i \in 0..(Len(hay) - Len(needle)) : SubSeq(hay, i + 1, i + Len(needle)) = needle

Window(h, t, v, ic) == [hwnd |-> h, title |-> t, visible |-> v, iconic |-> ic]

\* the desktops the functions are called on
Desktops ==
    { <<>>,
      << Window(101, <<"A", "b">>, TRUE, FALSE) >>,
      << Window(201, <<"x", "A", "b">>, FALSE, FALSE),
         Window(202, <<"x", "a", "B", "y">>, TRUE, TRUE),
         Window(203, <<"A", "b", "z">>, TRUE, FALSE) >>,
      << Window(301, <<"a", "B">>, FALSE, FALSE),
         Window(302, <<"A", "b">>, TRUE, FALSE) >> }

\* the smallest of the indices hits (the first window the enumeration meets), 0 when there is none
FirstIndex(hits) ==
    IF hits = {} THEN 0 ELSE CHOOSE i \in hits : \A j \in hits : i <= j

\* user32.FindWindowW(None, title): the first top-level window with that
\* title (the comparison is not case sensitive), 0 when there is none
FindWindowW(desktop, title) ==
    LET Same(w) == Lower(w.title) = Lower(title)
        i == FirstIndex({k \in DOMAIN desktop : Same(desktop[k])})
    IN  IF i = 0 THEN 0 ELSE desktop[i].hwnd

\* _find_hwnd: the exact match, else the first visible window with a
\* non-empty title that contains the title in lower case; the stub returns 0
FindHwnd(platform, desktop, title) ==
    LET Partial(w) == w.visible /\ Len(w.title) > 0 /\ Contains(Lower(w.title), Lower(title))
        i == FirstIndex({k \in DOMAIN desktop : Partial(desktop[k])})
    IN  IF platform # "win32" THEN 0
        ELSE IF FindWindowW(desktop, title) # 0 THEN FindWindowW(desktop, title)
        ELSE IF i = 0 THEN 0 ELSE desktop[i].hwnd

\* the window with handle hwnd
WindowOf(desktop, hwnd) ==
    desktop[CHOOSE i \in DOMAIN desktop : desktop[i].hwnd = hwnd]

\* a mutation of focus_window: the last SetWindowPos is left out
FocusWindowStaysOnTop(platform, desktop, title) ==
    LET hwnd == FindHwnd(platform, desktop, title)
    IN  IF hwnd = 0 THEN [found |-> FALSE, hwnd |-> 0, user32 |-> <<>>]
        ELSE [found |-> TRUE, hwnd |-> hwnd,
              user32 |-> << IF WindowOf(desktop, hwnd).iconic
                            THEN "ShowWindow(SW_RESTORE)" ELSE "ShowWindow(SW_SHOW)",
                            "keybd_event(VK_MENU)", "keybd_event(VK_MENU, KEYUP)",
                            "SetForegroundWindow",
                            "SetWindowPos(HWND_TOPMOST)" >>]

\* focus_window: whether a window was found, and the user32 calls made on it
FocusWindow(platform, desktop, title) ==
    LET hwnd == FindHwnd(platform, desktop, title)
    IN  IF hwnd = 0 THEN [found |-> FALSE, hwnd |-> 0, user32 |-> <<>>]
        ELSE [found |-> TRUE, hwnd |-> hwnd,
              user32 |-> << IF WindowOf(desktop, hwnd).iconic
                            THEN "ShowWindow(SW_RESTORE)" ELSE "ShowWindow(SW_SHOW)",
                            "keybd_event(VK_MENU)", "keybd_event(VK_MENU, KEYUP)",
                            "SetForegroundWindow",
                            "SetWindowPos(HWND_TOPMOST)", "SetWindowPos(HWND_NOTOPMOST)" >>]

\* the input and z-order state that focus_window acts on: whether the Alt
\* key is down, and of the window: minimized, shown, topmost, in the foreground
Screen(alt, iconic, visible, topmost, foreground) ==
    [alt |-> alt, iconic |-> iconic, shown |-> visible, topmost |-> topmost,
     foreground |-> foreground]

\* what a user32 call does; the system honours SetForegroundWindow or, with
\* its foreground lock, ignores it
User32(scr, fn, honoured) ==
    CASE fn = "ShowWindow(SW_RESTORE)" -> [scr EXCEPT !.iconic = FALSE, !.shown = TRUE]
      [] fn = "ShowWindow(SW_SHOW)" -> [scr EXCEPT !.shown = TRUE]
      [] fn = "keybd_event(VK_MENU)" -> [scr EXCEPT !.alt = TRUE]
      [] fn = "keybd_event(VK_MENU, KEYUP)" -> [scr EXCEPT !.alt = FALSE]
      [] fn = "SetForegroundWindow" -> [scr EXCEPT !.foreground = @ \/ honoured]
      [] fn = "SetWindowPos(HWND_TOPMOST)" -> [scr EXCEPT !.topmost = TRUE, !.shown = TRUE]
      [] fn = "SetWindowPos(HWND_NOTOPMOST)" -> [scr EXCEPT !.topmost = FALSE, !.shown = TRUE]

RECURSIVE AfterCalls(_, _, _)
\* the screen after the calls, made in order
AfterCalls(scr, calls, honoured) ==
    IF calls = <<>> THEN scr
    ELSE AfterCalls(User32(scr, Head(calls), honoured), Tail(calls), honoured)

\* what the operating system can answer a spawn with: the process starts
\* (its pid), or an OSError (no such cwd, no wsl.exe, no permission)
SpawnOutcomes ==
    { [kind |-> "started", pid |-> 4321],
      [kind |-> "OSError", pid |-> 0] }

\* the strings with a NUL character in them (written <NUL>)
HasNul(str) == str \in {"term.exe <NUL>"}

\* subprocess.Popen(...): arguments with a NUL character are rejected with
\* a ValueError before the operating system is asked
Popen(command, cwd, spawn) ==
    IF HasNul(command) \/ HasNul(cwd) THEN [kind |-> "ValueError", pid |-> 0] ELSE spawn

\* launch_process, line 118 / 148: except OSError
LaunchCatches(exc) == exc = "OSError"

\* launch_process: the pid, None (pid 0) when Popen fails with a caught
\* error, or the exception that is not caught; popen is what was asked of Popen
LaunchProcess(platform, command, cwd, wsl, spawn) ==
    LET p == Popen(command, cwd, spawn)
    IN  [raised |-> ~(p.kind = "started" \/ LaunchCatches(p.kind)),
         exc |-> IF p.kind = "started" \/ LaunchCatches(p.kind) THEN "" ELSE p.kind,
         pid |-> IF p.kind = "started" THEN p.pid ELSE 0,
         popen |-> [via |-> IF platform = "win32" /\ wsl THEN "wsl" ELSE "shell",
                    command |-> command, cwd |-> cwd]]

\* a ToolConfig with the fields the window functions read ("" and <<>> stand for None)
DesktopTool(n, wt, sc, cwd, wsl) ==
    [name |-> n, url |-> NoUrl, health_url |-> NoUrl, health_check |-> "",
     process_pattern |-> "", start_command |-> sc, window_title |-> wt,
     start_cwd |-> cwd, start_wsl |-> wsl]

DesktopTools ==
    { DesktopTool("editor", <<"A", "b">>, "editor.exe", "C:/tools", FALSE),
      DesktopTool("viewer", <<"A", "b">>, "", "", FALSE),
      DesktopTool("sched", <<"b", "z">>, "sched.sh", "", TRUE),
      DesktopTool("docs", <<>>, "docs.exe", "", FALSE),
      DesktopTool("term", <<"B">>, "term.exe <NUL>", "", FALSE) }

\* what a front end reports
Outcome(kind, pid) == [kind |-> kind, pid |-> pid]

\* the launch of api_focus (line 332, no cwd and no wsl) and of
\* action_open_tool (lines 208-210)
LaunchFor(fn, platform, tool, spawn) ==
    IF fn = "api_focus"
    THEN LaunchProcess(platform, tool.start_command, "", FALSE, spawn)
    ELSE LaunchProcess(platform, tool.start_command, tool.start_cwd, tool.start_wsl, spawn)

\* api_focus lines 320-343 and action_open_tool lines 204-221: the outcome
\* reported, the launches attempted, and the exception that escapes
FocusOrLaunch(fn, platform, desktop, tool, spawn) ==
    LET l == LaunchFor(fn, platform, tool, spawn)
    IN  IF tool.window_title = <<>>
        THEN [out |-> Outcome("no_window_title", 0), launches |-> <<>>, raised |-> ""]
        ELSE IF FocusWindow(platform, desktop, tool.window_title).found
        THEN [out |-> Outcome("focused", 0), launches |-> <<>>, raised |-> ""]
        ELSE IF tool.start_command # ""
        THEN IF l.raised
             THEN [out |-> Outcome("raised", 0), launches |-> <<l.popen>>, raised |-> l.exc]
             ELSE IF l.pid # 0
             THEN [out |-> Outcome("launched", l.pid), launches |-> <<l.popen>>, raised |-> ""]
             ELSE [out |-> Outcome("launch_failed", 0), launches |-> <<l.popen>>, raised |-> ""]
        ELSE [out |-> Outcome("not_found", 0), launches |-> <<>>, raised |-> ""]

\* the result of a call that has not returned yet
NotReturned == [out |-> Outcome("pending", 0), launches |-> <<>>, raised |-> ""]

\* focus_window has not returned
NotFocused == [found |-> FALSE, hwnd |-> -1, user32 |-> <<>>, after |-> <<>>]

WindowInit ==
    /\ EngineUnused
    /\ call \in { [fn |-> f, platform |-> pl, desktop |-> d, tool |-> t, spawn |-> sp,
                   result |-> NotReturned] :
                  f \in {"api_focus", "action_open_tool", "launch_process"},
                  pl \in Platforms, d \in Desktops, t \in DesktopTools,
                  sp \in SpawnOutcomes }
            \cup
                { [fn |-> "focus_window", platform |-> pl, desktop |-> d, tool |-> t,
                   honoured |-> h, pinned |-> pin, result |-> NotFocused] :
                  pl \in Platforms, d \in Desktops, t \in DesktopTools,
                  h \in BOOLEAN, pin \in BOOLEAN }

\* POST /api/focus/{tool_name} for a configured tool
ApiFocus ==
    /\ call.fn = "api_focus"
    /\ call.result = NotReturned
    /\ call' = [call EXCEPT !.result =
                   FocusOrLaunch("api_focus", call.platform, call.desktop, call.tool, call.spawn)]
    /\ UNCHANGED engineVars

\* key o / enter on the selected tool
ActionOpenTool ==
    /\ call.fn = "action_open_tool"
    /\ call.result = NotReturned
    /\ call' = [call EXCEPT !.result =
                   FocusOrLaunch("action_open_tool", call.platform, call.desktop, call.tool,
                                 call.spawn)]
    /\ UNCHANGED engineVars

\* launch_process called with the tool's start_command, start_cwd and start_wsl
LaunchProcessCalled ==
    /\ call.fn = "launch_process"
    /\ call.result = NotReturned
    /\ LET l == LaunchProcess(call.platform, call.tool.start_command, call.tool.start_cwd,
                              call.tool.start_wsl, call.spawn)
       IN  call' = [call EXCEPT !.result =
                       [out |-> Outcome(IF l.raised THEN "raised"
                                        ELSE IF l.pid # 0 THEN "pid" ELSE "None", l.pid),
                        launches |-> <<l.popen>>, raised |-> l.exc]]
    /\ UNCHANGED engineVars

\* focus_window(tool.window_title), as its callers call it (with a title
\* that is not empty): what it returns, the calls it made, and the screen
\* after them.  pinned: the window was topmost before; honoured: the system
\* lets SetForegroundWindow take effect
FocusWindowCalled ==
    /\ call.fn = "focus_window"
    /\ call.result = NotFocused
    /\ call.tool.window_title # <<>>
    /\ LET f == FocusWindow(call.platform, call.desktop, call.tool.window_title)
           before == IF f.found
                     THEN Screen(FALSE, WindowOf(call.desktop, f.hwnd).iconic,
                                 WindowOf(call.desktop, f.hwnd).visible, call.pinned, FALSE)
                     ELSE Screen(FALSE, FALSE, FALSE, FALSE, FALSE)
       IN  call' = [call EXCEPT !.result =
                       [found |-> f.found, hwnd |-> f.hwnd, user32 |-> f.user32,
                        after |-> AfterCalls(before, f.user32, call.honoured)]]
    /\ UNCHANGED engineVars

WindowNext == ApiFocus \/ ActionOpenTool \/ LaunchProcessCalled \/ FocusWindowCalled

SpecWindow == WindowInit /\ [][WindowNext]_vars

----------------------------------------------------------------------------
(* The claims. *)

\* the claims' "no resolvable strategy": no health_check tag, no health_url,
\* no process_pattern, no url
NoStrategy(tool) ==
    /\ tool.health_check = ""
    /\ ~tool.health_url.present
    /\ tool.process_pattern = ""
    /\ ~tool.url.present

\* the names of the configured tools that have a resolvable strategy
Probed == {n \in ToolNames : ~NoStrategy(ToolNamed(n))}

\* the record that a probe result (up, details) from t0 to t1 stands for
RecordOf(up, details, t0, t1) ==
    [status |-> IF up THEN "up" ELSE "down", latency_ms |-> t1 - t0,
     last_checked |-> t1, details |-> details]

\* C1: once stop() has returned, the status map never changes again, also
\* when a probe round was in flight when stop() was called.
C1_NoWriteAfterStop == [][stops > 0 => statuses' = statuses]_vars

\* C2: stop() is idempotent: no call of stop() raises, whether the engine was
\* never primed or started, or was stopped before; a call that returns leaves
\* no polling task running and the status map as it was; and a call after the
\* first changes nothing of the engine.
C2_StopIdempotent ==
    /\ [](~stopRaised)
    /\ [][stops' # stops =>
            /\ statuses' = statuses
            /\ task' \in {"none", "cancelled"}
            /\ (stops > 0 => task' = task /\ client' = client)]_vars

\* C2 witness: a second stop() has returned after polling was started and stopped.
C2_Witness == stops = 2 /\ task = "cancelled" /\ client = "closed" /\ ~stopRaised

\* C3: when a round ends that was not cancelled, every tool with a resolvable
\* strategy has had its record written by that round, whatever the other
\* probes of the round did; and a tool's record changes only when a probe of
\* that tool completes.
C3_PerToolIsolation ==
    /\ [][\A s \in Slots :
            (rounds[s].active /\ ~rounds'[s].active /\ ~rounds[s].cancelled)
                => rounds[s].written = Probed]_vars
    /\ [][\A n \in DOMAIN statuses \cap DOMAIN statuses' :
            lastResult'[n] = lastResult[n] => statuses'[n] = statuses[n]]_vars

\* C3 witness: a round is over in which one probe raised and another tool is up.
C3_Witness ==
    \E s \in Slots : \E n, m \in rounds[s].written :
        /\ CheckAllDone(rounds[s])
        /\ lastResult[n].exc = "Exception" /\ lastResult[n].t0 = rounds[s].t0
        /\ statuses[n].status = "down"
        /\ statuses[m].status = "up" /\ lastResult[m].t0 = rounds[s].t0

\* C4: when the probe that completed last for a tool raised an exception,
\* the exception did not leave _check_tool and the tool's record is down
\* with empty details.
C4_FailureIsDown ==
    \A n \in DOMAIN statuses :
        lastResult[n].exc = "Exception" =>
            /\ ~lastResult[n].propagated
            /\ statuses[n].status = "down"
            /\ statuses[n].details = {}

\* C4 witness: probes of an http, a tcp or a process tool have raised.
C4_Witness ==
    \E n \in DOMAIN statuses :
        /\ lastResult[n].exc = "Exception"
        /\ statuses[n].status = "down"
        /\ EffectiveHealthCheck(ToolNamed(n)) = "process"

\* C5: every record of the status map is the initial unknown record or a
\* record that one single probe completion of that tool produces: its four
\* fields are those of one event of the tool's probe and one pair of times.
C5_ReplaceNeverMerge ==
    \A n \in DOMAIN statuses :
        LET rec  == statuses[n]
            tool == ToolNamed(n)
        IN  \/ rec = Unknown
            \/ /\ rec.last_checked \in 1..now
               /\ rec.latency_ms \in 0..(rec.last_checked - 1)
               /\ \E ev \in ProbeEvents(tool) :
                    LET r == CheckTool(tool, ev)
                    IN  /\ ~r.skipped
                        /\ rec = RecordOf(r.up, r.details,
                                          rec.last_checked - rec.latency_ms,
                                          rec.last_checked)

\* C5 witness: a reader was shown a tool up, and a later probe of it that
\* raised has written its down record.
C5_Witness ==
    \E n \in DOMAIN statuses :
        /\ shown.served /\ n \in DOMAIN shown.rows /\ shown.rows[n] = "up"
        /\ lastResult[n].exc = "Exception"
        /\ statuses[n].status = "down" /\ statuses[n].details = {}

\* C6: once priming has populated the map, the keys of the status map are
\* the configured tool names, in every later state.
C6_KeysAreToolNames == fe # "init" => DOMAIN statuses = ToolNames

\* C6 witness: rounds have run and stop() has returned, and the keys are the tool names.
C6_Witness ==
    /\ stops > 0
    /\ DOMAIN statuses = ToolNames
    /\ \E n \in ToolNames : lastResult[n].done /\ lastResult[n].t0 > 1

\* C7: when run_initial_check has returned every tool with a resolvable
\* strategy is up or down with last_checked set, and what the web or TUI
\* front end hands a reader shows each of these tools up or down.
C7_PrimedBeforeRead ==
    /\ fe = "serving" =>
         \A n \in Probed : /\ statuses[n].status \in {"up", "down"}
                           /\ statuses[n].last_checked # NoTime
    /\ (frontend \in {"web", "tui"} /\ shown.served) =>
         \A n \in Probed : shown.rows[n] \in {"up", "down"}

\* C7 witness: the web front end has served a reader the primed statuses.
C7_Witness ==
    /\ frontend = "web" /\ shown.served
    /\ \E n \in Probed : shown.rows[n] = "down"

\* C8: the record of a tool with no resolvable strategy is the initial one,
\* after any rounds and ad-hoc checks.
C8_NoStrategyStaysUnknown ==
    \A n \in DOMAIN statuses : NoStrategy(ToolNamed(n)) => statuses[n] = Unknown

\* C8 witness: a periodic and an ad-hoc round have written records of the
\* other tools, and the tool with no strategy is still unknown.
C8_Witness ==
    /\ \E n \in DOMAIN statuses : NoStrategy(ToolNamed(n)) /\ statuses[n] = Unknown
    /\ rounds["adhoc"].written # {}
    /\ \E n \in DOMAIN statuses : lastResult[n].done /\ lastResult[n].t0 > 1

\* C9: in no reachable state are two probe rounds in flight.
C9_NoOverlappingRounds == Cardinality({s \in Slots : rounds[s].active}) <= 1

\* C10: the record of a tool is the result of the probe of that tool that
\* completed last, and the initial record when none has completed.
C10_LatestProbeWins ==
    \A n \in DOMAIN statuses :
        IF lastResult[n].done
        THEN statuses[n] = RecordOf(lastResult[n].up, lastResult[n].details,
                                    lastResult[n].t0, lastResult[n].t1)
        ELSE statuses[n] = Unknown

\* C10 witness: two rounds overlap, both have completed their probe of a tool,
\* and the round that started first completed it last.
C10_Witness ==
    \E n \in DOMAIN statuses :
        /\ rounds["periodic"].active /\ rounds["adhoc"].active
        /\ n \in rounds["periodic"].written \cap rounds["adhoc"].written
        /\ rounds["periodic"].t0 < rounds["adhoc"].t0
        /\ lastResult[n].t0 = rounds["periodic"].t0
        /\ statuses[n].latency_ms = 1

\* C11: the HTTP client is closed exactly once: in every reachable state at
\* most one aclose() has been issued on it, once stop() has returned on a
\* primed engine one has been issued, and no round starts an HTTP probe on a
\* client that is closed.
C11_ClientClosedOnce ==
    /\ acloses <= 1
    /\ (stops > 0 /\ client # "none") => acloses >= 1
    /\ \A s \in Slots : \A n \in rounds[s].pending :
         EffectiveHealthCheck(ToolNamed(n)) = "http" => rounds[s].clientOpen

\* a step of an ad-hoc check: the handler moves, or a probe of its round ends
AdhocStep == adhocPc' # adhocPc \/ rounds'["adhoc"] # rounds["adhoc"]

\* the TUI's interval timer is running
TimerRunning == frontend = "tui" /\ fe = "serving" /\ ~ShuttingDown

PollingRunning == task \in {"sleeping", "round"}

\* C13: while the polling task is running and stop() is not called, every
\* tool with a resolvable strategy has a probe of a periodic round complete
\* again and again, whatever the earlier probes returned; and the polling
\* task leaves its loop only by being cancelled.
C13_PollingLiveness ==
    /\ \A n \in AllNames :
         \/ []<>(~PollingRunning \/ ShuttingDown \/ n \notin Probed)
         \/ []<><<ProbeCompletes("periodic", n)>>_vars
    /\ [][(PollingRunning /\ ~PollingRunning') => task' = "cancelling"]_vars

\* C13 witness: a tool that was up when a reader saw it has failed in a
\* periodic round, and the next periodic round is probing it again.
C13_Witness ==
    \E n \in DOMAIN statuses :
        /\ frontend = "web" /\ shown.served /\ shown.rows[n] = "up"
        /\ statuses[n].status = "down" /\ lastResult[n].exc = "Exception"
        /\ task = "round" /\ n \in rounds["periodic"].pending

\* the strategy the claim gives for each combination of present and absent fields
C14_Priority(tool) ==
    CASE tool.health_check # "" -> tool.health_check
      [] tool.health_check = "" /\ tool.health_url.present -> "http"
      [] tool.health_check = "" /\ ~tool.health_url.present
            /\ tool.process_pattern # "" -> "process"
      [] tool.health_check = "" /\ ~tool.health_url.present
            /\ tool.process_pattern = "" /\ tool.url.present -> "http"
      [] OTHER -> "none"

\* C14: the strategy a check of a tool has just resolved is the one the
\* priority order gives for the fields the tool has at that check, also when
\* the fields were changed since the check before.
C14_StrategyResolution ==
    (call.fn = "_check_tool" /\ call.fresh) => call.strategy = C14_Priority(call.tool)

\* C14 witness: a tool with a url and a process_pattern has been checked
\* after its fields were changed, and resolves to process.
C14_Witness ==
    /\ call.fn = "_check_tool" /\ call.fresh /\ call.reloaded
    /\ call.tool.url.present /\ call.tool.process_pattern # ""
    /\ call.tool.health_check = "" /\ ~call.tool.health_url.present
    /\ call.strategy = "process"

\* a focus-or-launch call on a tool with a window_title has returned or raised
C15_Called ==
    /\ call.fn \in {"api_focus", "action_open_tool"}
    /\ call.result # NotReturned
    /\ call.tool.window_title # <<>>

\* _find_hwnd locates a window for the tool's window_title
C15_Located == FindHwnd(call.platform, call.desktop, call.tool.window_title) # 0

\* C15: for a tool with a window_title the outcome is focused iff a window
\* is located, and then nothing is launched; with no window and a
\* start_command exactly one launch is attempted and the outcome is
\* launched(pid) or launch_failed; with no window and no start_command the
\* outcome is not_found and nothing is launched.
C15_FocusOrLaunchOutcome ==
    C15_Called =>
        /\ (call.result.out.kind = "focused") <=> C15_Located
        /\ C15_Located => call.result.launches = <<>>
        /\ (~C15_Located /\ call.tool.start_command # "") =>
              /\ Len(call.result.launches) = 1
              /\ \/ call.result.out.kind = "launched" /\ call.result.out.pid # 0
                 \/ call.result.out.kind = "launch_failed"
        /\ (~C15_Located /\ call.tool.start_command = "") =>
              /\ call.result.out.kind = "not_found"
              /\ call.result.launches = <<>>

\* C16: launch_process returns the new process id or None and lets no
\* exception out, whatever Popen does.
C16_LaunchNeverRaises ==
    (call.fn = "launch_process" /\ call.result # NotReturned) =>
        /\ call.result.raised = ""
        /\ call.result.out.kind \in {"pid", "None"}

\* the probe of the tool of the given strategy has been answered and
\* _check_tool has gone on to its write
ProbeDone(strategy) ==
    /\ call.fn = "probe"
    /\ call.result # NotProbed
    /\ EffectiveHealthCheck(call.tool) = strategy

\* C17: when the HTTP probe has received a response, the tool is up iff the
\* status code is below 400, whatever the body is.
C17_HttpVerdict ==
    (ProbeDone("http") /\ call.ev.kind = "response") =>
        /\ call.result.up <=> (call.ev.code < 400)
        /\ ~call.result.propagates

\* C17 witness: a response with status 400 and a JSON body has been judged down.
C17_Witness ==
    /\ ProbeDone("http")
    /\ call.ev.kind = "response" /\ call.ev.code = 400 /\ call.ev.body.json
    /\ ~call.result.up

\* C18: on a successful TCP probe the endpoint detail is host:port for the
\* host and port the connection was opened to (the URL's, with 127.0.0.1 and
\* 80 for a missing hostname or port).
C18_TcpEndpoint ==
    (ProbeDone("tcp") /\ call.result.up) =>
        call.result.details =
            { <<"endpoint", TcpTarget(call.tool.url).host \o ":"
                            \o ToString(TcpTarget(call.tool.url).port)>> }

\* the process probe has parsed an output in which every row has a process
\* id and a working set that are numbers: each row is one matching process
C19_Parsed ==
    /\ ProbeDone("process")
    /\ call.tool.process_pattern # ""
    /\ call.ev.kind = "output"
    /\ \A i \in DOMAIN call.ev.rows : call.ev.rows[i].pid >= 0 /\ call.ev.rows[i].ws >= 0

RECURSIVE C19_Sum(_, _)
\* the sum of the working sets of the first k rows
C19_Sum(rows, k) == IF k = 0 THEN 0 ELSE rows[k].ws + C19_Sum(rows, k - 1)

\* the matching rows' working sets, summed
C19_Total == C19_Sum(call.ev.rows, Len(call.ev.rows))

\* the first process id, with the count of the others when there are others
C19_PidText ==
    LET n == Len(call.ev.rows)
        first == ToString(call.ev.rows[1].pid)
    IN  IF n > 1 THEN first \o " (+" \o ToString(n - 1) \o ")" ELSE first

\* the details hold a memory detail that is the total in MB, to the nearest MB
C19_MemoryInMB ==
    \E m \in 0..(C19_Total \div BytesPerMB + 1) :
        /\ 2 * (m * BytesPerMB - C19_Total) <= BytesPerMB
        /\ 2 * (C19_Total - m * BytesPerMB) <= BytesPerMB
        /\ <<"memory", ToString(m) \o " MB">> \in call.result.details

C20_ProcessDownIsEmpty ==
    (ProbeDone("process") /\ call.ev.kind = "output" /\ ~call.result.up) =>
        /\ call.result.details = {}
        /\ ~call.result.propagates

\* the HTTP probe has received a response with a status code below 400
C21_Success == ProbeDone("http") /\ call.ev.kind = "response" /\ call.ev.code < 400

\* the telemetry of the response failed: the body is no JSON, is no object,
\* or the extraction raised
C21_Failed ==
    \/ ~call.ev.body.json
    \/ ~call.ev.body.object
    \/ ExtractHealthInfo(call.ev.body.data).raised

\* the keys of the details
C21_Keys == {d[1] : d \in call.result.details}

\* C21: for a response with a status code below 400 the tool is up whatever
\* the body is, no exception leaves the probe, and a telemetry failure only
\* takes detail fields away: the details are the port alone then, and the
\* port with telemetry fields otherwise.
C21_TelemetryKeepsVerdict ==
    C21_Success =>
        /\ call.result.up
        /\ ~call.result.propagates
        /\ "port" \in C21_Keys
        /\ C21_Keys \subseteq {"port", "memory", "version", "uptime"} \cup CountKeys
        /\ C21_Failed => C21_Keys = {"port"}

\* C21 witness: a 200 response whose body makes the extraction raise has
\* been judged up, with the port as the only detail.
C21_Witness ==
    /\ C21_Success
    /\ call.ev.body.json /\ call.ev.body.object
    /\ ExtractHealthInfo(call.ev.body.data).raised
    /\ call.result.up
    /\ call.result.details = {<<"port", "8080">>}

\* _extract_health_info has returned or raised
Extracted == call.fn = "_extract_health_info" /\ call.result # NotExtracted

\* the detail that the extraction returned under the key, {} when none
DetailOf(key) == {d[2] : d \in {e \in call.result.info : e[1] = key}}

\* memoryMB.rss, memory.rss: what is under rss when the alias is an object
C22_Rss(mem) == IF mem.t = "dict" THEN mem.rss ELSE Absent

\* C22: the memory detail is memoryMB.rss as megabytes when that is a
\* number, otherwise memory.rss in bytes divided by 1,048,576 when that is a
\* number, and there is no memory detail only when neither is a number.
C22_MemoryAliasOrder ==
    Extracted =>
        LET mb == C22_Rss(call.data.memoryMB)
            m == C22_Rss(call.data.memory)
        IN  IF mb.t = "int" THEN DetailOf("memory") = {ToString(mb.n) \o " MB"}
            ELSE IF m.t = "int"
            THEN \E q \in 0..(m.n \div BytesPerMB + 1) :
                    /\ 2 * (q * BytesPerMB - m.n) <= BytesPerMB
                    /\ 2 * (m.n - q * BytesPerMB) <= BytesPerMB
                    /\ DetailOf("memory") = {ToString(q) \o " MB"}
            ELSE IsNumber(mb) \/ IsNumber(m) \/ DetailOf("memory") = {}

\* the uptime text the claim gives for s seconds
C23_Text(s) ==
    IF s >= 3600
    THEN ToString(s \div 3600) \o "h " \o ToString((s % 3600) \div 60) \o "m"
    ELSE ToString(s \div 60) \o "m"

\* C23: the uptime is taken from uptimeSeconds if that is a number, else from
\* uptime if that is a number; when it is an integer s >= 0 the uptime detail
\* is "<s div 3600>h <(s mod 3600) div 60>m" for s >= 3600 and "<s div 60>m"
\* otherwise, and when neither is a number there is no uptime detail.
C23_UptimeFormat ==
    Extracted =>
        LET val == IF IsNumber(call.data.uptimeSeconds) THEN call.data.uptimeSeconds
                   ELSE call.data.uptime
        IN  /\ (val.t = "int" /\ val.n >= 0) => DetailOf("uptime") = {C23_Text(val.n)}
            /\ ~IsNumber(val) => DetailOf("uptime") = {}

\* C24: the extraction raises nothing, and for each of types, files, members
\* the detail is the number under memoryIndex when there is one, otherwise
\* the number at the top level when there is one, otherwise there is none.
C24_CountPrecedence ==
    Extracted =>
        /\ ~call.result.raised
        /\ \A k \in CountKeys :
             LET idx == call.data.memoryIndex
             IN  IF idx.t = "dict" /\ IsNumber(idx[k])
                 THEN DetailOf(k) = {Grouped(idx[k].n)}
                 ELSE IF IsNumber(call.data[k])
                 THEN DetailOf(k) = {Grouped(call.data[k].n)}
                 ELSE DetailOf(k) = {}

\* what the reader's data reads as now
HeldContents ==
    IF call.held.kind = "live" THEN Contents(call.statuses, call.heap)
    ELSE Contents(call.held.rows, call.heap)

\* what the engine's status map reads as now
EngineContents == Contents(call.statuses, call.heap)

\* C25: the data a reader was handed is not changed by a probe completion
\* that happens afterwards, and a change the reader makes to the mapping it
\* was returned, or to the details in it, does not change the status map of
\* the engine.
C25_SnapshotIsCopy ==
    /\ [][(call.held # NothingHeld /\ call'.writes # call.writes)
             => HeldContents' = HeldContents]_vars
    /\ [][(call.held # NothingHeld /\ call'.edited # call.edited)
             => EngineContents' = EngineContents]_vars

\* focus_window has returned on Windows; its hwnd is what _find_hwnd returned
C26_Searched ==
    /\ call.fn = "focus_window"
    /\ call.result # NotFocused
    /\ call.platform = "win32"

\* the windows, by their place in the enumeration, that are visible and
\* whose title contains the title, case ignored
C26_Containing ==
    {i \in DOMAIN call.desktop :
        /\ call.desktop[i].visible
        /\ Contains(Lower(call.desktop[i].title), Lower(call.tool.window_title))}

\* the first of a non-empty set of places
C26_First(places) == CHOOSE i \in places : \A j \in places : i <= j

\* C26: _find_hwnd returns a window whose title equals the title
\* when there is one, otherwise the first window of the enumeration that is
\* visible and whose title contains the title, case ignored, and 0 iff there
\* is neither.
C26_LocateWindow ==
    C26_Searched =>
        LET equal == {i \in DOMAIN call.desktop :
                        call.desktop[i].title = call.tool.window_title}
        IN  IF equal # {}
            THEN call.result.hwnd \in {call.desktop[i].hwnd : i \in equal}
            ELSE IF C26_Containing # {}
            THEN call.result.hwnd = call.desktop[C26_First(C26_Containing)].hwnd
            ELSE call.result.hwnd = 0

\* C27: when a window is found focus_window makes, in this order, the calls
\* restore or show, Alt down, Alt up, set foreground, set topmost, set not
\* topmost, and returns true whether or not the foreground call took effect;
\* afterwards the Alt key is up and the window is not topmost.  When no
\* window is found it returns false and makes no call.
C27_FocusProtocol ==
    (call.fn = "focus_window" /\ call.result # NotFocused) =>
        IF call.result.hwnd # 0
        THEN /\ call.result.found
             /\ Len(call.result.user32) = 6
             /\ call.result.user32[1] \in {"ShowWindow(SW_RESTORE)", "ShowWindow(SW_SHOW)"}
             /\ SubSeq(call.result.user32, 2, 6) =
                   << "keybd_event(VK_MENU)", "keybd_event(VK_MENU, KEYUP)",
                      "SetForegroundWindow",
                      "SetWindowPos(HWND_TOPMOST)", "SetWindowPos(HWND_NOTOPMOST)" >>
             /\ ~call.result.after.alt
             /\ ~call.result.after.topmost
             /\ ~call.result.after.iconic
        ELSE /\ ~call.result.found
             /\ call.result.user32 = <<>>

\* C27 witness: a minimized window was restored, the system ignored the
\* foreground call, and focus_window returned true.
C27_Witness ==
    /\ call.fn = "focus_window" /\ call.result # NotFocused
    /\ call.result.found
    /\ call.result.user32[1] = "ShowWindow(SW_RESTORE)"
    /\ ~call.honoured /\ ~call.result.after.foreground
    /\ call.pinned /\ ~call.result.after.topmost

\* what the other front end does for the same tool on the same desktop with
\* the same answer of the operating system
C30_Other ==
    FocusOrLaunch(IF call.fn = "api_focus" THEN "action_open_tool" ELSE "api_focus",
                  call.platform, call.desktop, call.tool, call.spawn)

\* C30: api_focus and action_open_tool reach the same outcome for the same
\* tool in the same environment, and when they launch they call
\* launch_process with the same command, working directory and wsl flag.
C30_FrontEndsAgree ==
    C15_Called =>
        /\ call.result.out = C30_Other.out
        /\ call.result.launches = C30_Other.launches

\* the polling tasks of the checker that have not ended
C28_Alive == {i \in DOMAIN call.tasks : call.tasks[i] # "cancelled"}

\* C28: at most one polling task of the checker is alive at any time, and
\* when stop() has returned, with no start_polling() since, none is alive:
\* no loop sleeps or runs a round.
C28_OnePollingTask ==
    /\ Cardinality(C28_Alive) <= 1
    /\ call.stopped => C28_Alive = {}

\* C29: every record of the status map has a status of unknown, up or down
\* and a latency that is an integer >= 0; it is unknown iff it has no
\* last_checked, and then its latency is 0 and its details are empty; and
\* the record of a tool of which a probe has completed is not unknown, in
\* any later state.
C29_RecordWellFormed ==
    \A n \in DOMAIN statuses :
        /\ statuses[n].status \in {"unknown", "up", "down"}
        /\ statuses[n].latency_ms \in Nat
        /\ (statuses[n].status = "unknown") <=> (statuses[n].last_checked = NoTime)
        /\ statuses[n].status = "unknown" =>
              statuses[n].latency_ms = 0 /\ statuses[n].details = {}
        /\ lastResult[n].done => statuses[n].status # "unknown"

\* C29 witness: a tool that was up has been probed again in a later round
\* and is down, with a latency of one tick, and another tool is still unknown.
C29_Witness ==
    \E n, m \in DOMAIN statuses :
        /\ shown.served /\ shown.rows[n] = "up"
        /\ statuses[n].status = "down" /\ statuses[n].latency_ms = 1
        /\ statuses[n].last_checked = 2
        /\ statuses[m] = Unknown

====
